---- MODULE Spec2Model ----
(***************************************************************************)
(* Model of the JUCE var adapter for valijson                              *)
(* (include/valijson/adapters/juce_valijson_var_adapter.hpp).              *)
(*                                                                         *)
(* A juce::var is a tagged value.  Scalars are stored inline; an array or  *)
(* an object var holds a reference-counted pointer to shared storage, so   *)
(* copying a var shares the storage and only var::clone() copies it.  The  *)
(* storage lives in `heap`.  The views of the adapter each hold one var.   *)
(***************************************************************************)
EXTENDS Integers, Sequences, FiniteSets, TLC

VARIABLES heap, doc, snaps, last, steps

vars == <<heap, doc, snaps, last, steps>>

(***************************************************************************)
(* Bounds of the model.                                                    *)
(***************************************************************************)
\* Largest number of elements of an array / members of an object of the
\* documents.
MaxLen == 2
\* Largest number of frozen snapshots alive at once.
MaxSnaps == 2
\* Largest number of mutations applied to the live document or to a clone.
MaxSteps == 2

(***************************************************************************)
(* juce::var values.  One record shape for every type:                     *)
(*   b  the stored bool              (type "bool")                         *)
(*   i  the stored integer           (types "int", "int64"), or twice the  *)
(*      stored floating-point number (type "double": 3 stands for 1.5)     *)
(*   s  the stored text, a sequence of Unicode code points ("string")      *)
(*   p  the address of the shared storage ("array", "object"); 0 is the    *)
(*      null pointer: an object var whose ReferenceCountedObject is absent *)
(*      or is no DynamicObject.                                            *)
(***************************************************************************)
Var(t, b, i, s, p) == [type |-> t, b |-> b, i |-> i, s |-> s, p |-> p]

VoidVar == Var("void", FALSE, 0, <<>>, 0)
UndefinedVar == Var("undefined", FALSE, 0, <<>>, 0)
BoolVar(b) == Var("bool", b, 0, <<>>, 0)
IntVar(i) == Var("int", FALSE, i, <<>>, 0)
Int64Var(i) == Var("int64", FALSE, i, <<>>, 0)
DoubleVar(twice) == Var("double", FALSE, twice, <<>>, 0)
StringVar(s) == Var("string", FALSE, 0, s, 0)
ArrayVar(a) == Var("array", FALSE, 0, <<>>, a)
ObjectVar(a) == Var("object", FALSE, 0, <<>>, a)

\* Storage cells: the Array<var> behind an array var, the NamedValueSet of
\* the DynamicObject behind an object var (names[k] names elems[k]).
FreeCell == [kind |-> "free", names |-> <<>>, elems |-> <<>>]
Cell(kind, names, elems) == [kind |-> kind, names |-> names, elems |-> elems]

\* The function-local static singletons of the three classes.
EmptyArrayAddr == 1
EmptyObjectAddr == 2
ValueEmptyObjectAddr == 3
Statics == {EmptyArrayAddr, EmptyObjectAddr, ValueEmptyObjectAddr}

\* Storage of one value: its own cell and one per nested container.
CellsPerValue == 1 + MaxLen
MaxAddr == Cardinality(Statics) + CellsPerValue * (1 + MaxSnaps)
Addrs == 1..MaxAddr

NullPtr == [base |-> 0, off |-> 0]
Ptr(base, off) == [base |-> base, off |-> off]

(***************************************************************************)
(* Text.  juce::String holds code points; std::string holds bytes.         *)
(* String::toStdString() encodes as UTF-8 and String(const std::string&)   *)
(* reads UTF-8.                                                            *)
(***************************************************************************)
RECURSIVE toStdString(_)
toStdString(s) ==
    IF s = <<>> THEN <<>>
    ELSE LET c == Head(s)
             enc == IF c < 128 THEN <<c>>
                    ELSE <<192 + (c \div 64), 128 + (c % 64)>>
         IN enc \o toStdString(Tail(s))

RECURSIVE fromStdString(_)
fromStdString(bytes) ==
    IF bytes = <<>> THEN <<>>
    ELSE IF Head(bytes) < 128 \/ Len(bytes) = 1
         THEN <<Head(bytes)>> \o fromStdString(Tail(bytes))
         ELSE <<(Head(bytes) - 192) * 64 + (bytes[2] - 128)>>
                  \o fromStdString(Tail(Tail(bytes)))

(***************************************************************************)
(* The juce::var operations the adapter calls.                             *)
(***************************************************************************)
var_isVoid(v) == v.type = "void"
var_isBool(v) == v.type = "bool"
var_isInt(v) == v.type = "int"
var_isInt64(v) == v.type = "int64"
var_isDouble(v) == v.type = "double"
var_isString(v) == v.type = "string"
var_isArray(v) == v.type = "array"
var_isObject(v) == v.type = "object"

\* var::getArray(): the Array<var> of an array var, else nullptr.
var_getArray(v) == IF var_isArray(v) THEN v.p ELSE 0

\* dynamic_cast<DynamicObject*> (value.getObject()): nullptr unless the var
\* is an object var that holds a DynamicObject.
var_getDynamicObject(h, v) ==
    IF var_isObject(v) /\ v.p # 0 /\ h[v.p].kind = "object" THEN v.p ELSE 0

\* var::size(): the length of an array var, 0 for every other var.
var_size(h, v) == IF var_isArray(v) THEN Len(h[v.p].elems) ELSE 0

\* The conversion operators behind `result = value`.
var_toBool(v) ==
    CASE v.type = "bool" -> v.b
      [] v.type \in {"int", "int64", "double"} -> v.i # 0
      [] v.type = "string" -> v.s # <<>>
      [] OTHER -> FALSE

Trunc2(twice) == IF twice >= 0 THEN twice \div 2 ELSE -((-twice) \div 2)

var_toInt64(v) ==
    CASE v.type \in {"int", "int64"} -> v.i
      [] v.type = "bool" -> IF v.b THEN 1 ELSE 0
      [] v.type = "double" -> Trunc2(v.i)
      [] OTHER -> 0

\* The result is twice the number, as for a stored double.
var_toDouble(v) ==
    CASE v.type = "double" -> v.i
      [] v.type \in {"int", "int64"} -> 2 * v.i
      [] v.type = "bool" -> IF v.b THEN 2 ELSE 0
      [] OTHER -> 0

\* var::toString() of a scalar; a string var yields its text.
var_toString(v) ==
    CASE v.type = "string" -> v.s
      [] v.type = "bool" -> IF v.b THEN <<49>> ELSE <<48>>
      [] OTHER -> <<>>

(***************************************************************************)
(* Values as trees, free of sharing: what a var denotes in a heap.         *)
(***************************************************************************)
Tree(t, b, i, s, dyn, names, kids) ==
    [type |-> t, b |-> b, i |-> i, s |-> s, dyn |-> dyn,
     names |-> names, kids |-> kids]

RECURSIVE Abs(_, _)
Abs(h, v) ==
    CASE var_isArray(v) ->
           Tree("array", FALSE, 0, <<>>, TRUE, <<>>,
                [k \in 1..Len(h[v.p].elems) |-> Abs(h, h[v.p].elems[k])])
      [] var_isObject(v) /\ var_getDynamicObject(h, v) # 0 ->
           Tree("object", FALSE, 0, <<>>, TRUE, h[v.p].names,
                [k \in 1..Len(h[v.p].elems) |-> Abs(h, h[v.p].elems[k])])
      [] var_isObject(v) /\ var_getDynamicObject(h, v) = 0 ->
           Tree("object", FALSE, 0, <<>>, FALSE, <<>>, <<>>)
      [] OTHER -> Tree(v.type, v.b, v.i, v.s, FALSE, <<>>, <<>>)

\* Every var reachable from v, v included.
RECURSIVE Reach(_, _)
Reach(h, v) ==
    IF var_isArray(v) \/ var_getDynamicObject(h, v) # 0
    THEN {v} \cup UNION {Reach(h, h[v.p].elems[k]) : k \in 1..Len(h[v.p].elems)}
    ELSE {v}

\* The storage cells reachable from v.
CellsOf(h, v) == {w.p : w \in {x \in Reach(h, v) : x.p # 0}}

\* Allocation takes the lowest free address.
Alloc(h) ==
    CHOOSE a \in Addrs :
        h[a].kind = "free" /\ \A b \in Addrs : b < a => h[b].kind # "free"

FreeCount(h) == Cardinality({a \in Addrs : h[a].kind = "free"})

(***************************************************************************)
(* var::clone(): a deep copy.  An array var copies its Array<var> cloning  *)
(* every element; an object var that holds a DynamicObject clones it with  *)
(* every property value cloned; an object var that holds none cannot be    *)
(* cloned and yields a void var; a scalar is copied.                       *)
(***************************************************************************)
RECURSIVE var_clone(_, _)
RECURSIVE cloneElems(_, _, _)
var_clone(h, v) ==
    IF var_isArray(v) \/ var_getDynamicObject(h, v) # 0
    THEN LET a == Alloc(h)
             h1 == [h EXCEPT ![a] = Cell(v.type, h[v.p].names, <<>>)]
             r == cloneElems(h1, h[v.p].elems, 1)
         IN [h |-> [r.h EXCEPT ![a].elems = r.vs],
             v |-> Var(v.type, FALSE, 0, <<>>, a)]
    ELSE IF var_isObject(v) THEN [h |-> h, v |-> VoidVar]
    ELSE [h |-> h, v |-> v]

cloneElems(h, elems, k) ==
    IF k > Len(elems) THEN [h |-> h, vs |-> <<>>]
    ELSE LET r1 == var_clone(h, elems[k])
             r2 == cloneElems(r1.h, elems, k + 1)
         IN [h |-> r2.h, vs |-> <<r1.v>> \o r2.vs]

(***************************************************************************)
(* JuceVarValue: the value view.  `value` is the var the view holds.       *)
(***************************************************************************)
JuceVarValue_isArray(value) == var_isArray(value)
JuceVarValue_isBool(value) == var_isBool(value)
JuceVarValue_isDouble(value) == var_isDouble(value)
JuceVarValue_isInteger(value) == var_isInt(value) \/ var_isInt64(value)
JuceVarValue_isNull(value) == var_isVoid(value)
JuceVarValue_isNumber(value) ==
    var_isDouble(value) \/ JuceVarValue_isInteger(value)
JuceVarValue_isObject(value) == var_isObject(value)
JuceVarValue_isString(value) == var_isString(value)
JuceVarValue_hasStrictTypes == TRUE

\* Each extractor takes the caller's output variable and returns the
\* function's result with the output variable as the call leaves it.
\* JuceVarValue_getArraySize storing the size before it looks at the type.
JuceVarValue_getArraySize_eager(h, value, result) ==
    [ret |-> var_isArray(value), result |-> var_size(h, value)]

JuceVarValue_getArraySize(h, value, result) ==
    IF var_isArray(value)
    THEN [ret |-> TRUE, result |-> var_size(h, value)]
    ELSE [ret |-> FALSE, result |-> result]

JuceVarValue_getBool(value, result) ==
    IF var_isBool(value)
    THEN [ret |-> TRUE, result |-> var_toBool(value)]
    ELSE [ret |-> FALSE, result |-> result]

\* JuceVarValue_getDouble accepting every number, converting an integer.
JuceVarValue_getDouble_coercing(value, result) ==
    IF var_isDouble(value) \/ var_isInt(value) \/ var_isInt64(value)
    THEN [ret |-> TRUE, result |-> var_toDouble(value)]
    ELSE [ret |-> FALSE, result |-> result]

JuceVarValue_getDouble(value, result) ==
    IF var_isDouble(value)
    THEN [ret |-> TRUE, result |-> var_toDouble(value)]
    ELSE [ret |-> FALSE, result |-> result]

JuceVarValue_getInteger(value, result) ==
    IF JuceVarValue_isInteger(value)
    THEN [ret |-> TRUE, result |-> var_toInt64(value)]
    ELSE [ret |-> FALSE, result |-> result]

JuceVarValue_getObjectSize(h, value, result) ==
    IF var_getDynamicObject(h, value) # 0
    THEN [ret |-> TRUE, result |-> Len(h[var_getDynamicObject(h, value)].elems)]
    ELSE [ret |-> FALSE, result |-> result]

JuceVarValue_getString(value, result) ==
    IF var_isString(value)
    THEN [ret |-> TRUE, result |-> toStdString(var_toString(value))]
    ELSE [ret |-> FALSE, result |-> result]

(***************************************************************************)
(* JuceVarArray and JuceVarObject: the container views.  A constructor     *)
(* either throws std::runtime_error or yields a view holding the var.      *)
(***************************************************************************)
NoView == [threw |-> TRUE, present |-> FALSE, value |-> VoidVar]
View(value) == [threw |-> FALSE, present |-> TRUE, value |-> value]
\* An empty optional: nothing was thrown and no view exists.
NoneView == [threw |-> FALSE, present |-> FALSE, value |-> VoidVar]

JuceVarArray_default == View(ArrayVar(EmptyArrayAddr))
JuceVarObject_default == View(ObjectVar(EmptyObjectAddr))
JuceVarValue_default == ObjectVar(ValueEmptyObjectAddr)

\* JuceVarArray_ctor with the isArray() test left out.
JuceVarArray_ctor_unchecked(valueToUse) == View(valueToUse)

JuceVarArray_ctor(valueToUse) ==
    IF ~ var_isArray(valueToUse) THEN NoView ELSE View(valueToUse)

JuceVarObject_ctor(valueToUse) ==
    IF ~ var_isObject(valueToUse) THEN NoView ELSE View(valueToUse)

JuceVarArray_size(h, view) == var_size(h, view.value)

JuceVarObject_size(h, view) ==
    IF var_getDynamicObject(h, view.value) # 0
    THEN Len(h[var_getDynamicObject(h, view.value)].elems)
    ELSE 0

JuceVarValue_getArrayOptional(value) ==
    IF var_isArray(value) THEN JuceVarArray_ctor(value) ELSE NoneView

\* JuceVarValue_getObjectOptional constructing the view without looking at
\* the type first.
JuceVarValue_getObjectOptional_unguarded(value) == JuceVarObject_ctor(value)

JuceVarValue_getObjectOptional(value) ==
    IF var_isObject(value) THEN JuceVarObject_ctor(value) ELSE NoneView

(***************************************************************************)
(* Iterators.  An iterator holds a raw pointer into the storage of the     *)
(* container: the storage (base) and the position in it (off).             *)
(***************************************************************************)
JuceVarArray_begin(h, view) ==
    IF var_getArray(view.value) # 0
    THEN Ptr(var_getArray(view.value), 0)
    ELSE NullPtr

JuceVarArray_end(h, view) ==
    IF var_getArray(view.value) # 0
    THEN Ptr(var_getArray(view.value), Len(h[var_getArray(view.value)].elems))
    ELSE NullPtr

JuceVarObject_begin(h, view) ==
    IF var_getDynamicObject(h, view.value) # 0
    THEN Ptr(var_getDynamicObject(h, view.value), 0)
    ELSE NullPtr

JuceVarObject_end(h, view) ==
    IF var_getDynamicObject(h, view.value) # 0
    THEN Ptr(var_getDynamicObject(h, view.value),
             Len(h[var_getDynamicObject(h, view.value)].elems))
    ELSE NullPtr

\* The scan of find() with names compared ignoring case.
Lower(name) == [k \in 1..Len(name) |->
                   IF name[k] \in 65..90 THEN name[k] + 32 ELSE name[k]]
RECURSIVE findFrom_ignoreCase(_, _, _, _)
findFrom_ignoreCase(h, object, propertyId, k) ==
    IF k = Len(h[object].elems) THEN Ptr(object, k)
    ELSE IF Lower(h[object].names[k + 1]) = Lower(propertyId)
         THEN Ptr(object, k)
         ELSE findFrom_ignoreCase(h, object, propertyId, k + 1)

\* The scan of find(): the first position from k on whose name is
\* propertyId, else the end position.
RECURSIVE findFrom(_, _, _, _)
findFrom(h, object, propertyId, k) ==
    IF k = Len(h[object].elems) THEN Ptr(object, k)
    ELSE IF h[object].names[k + 1] = propertyId THEN Ptr(object, k)
    ELSE findFrom(h, object, propertyId, k + 1)

\* find() returning nullptr, not the end position, when no name matches.
JuceVarObject_find_null(h, view, propertyName) ==
    IF var_getDynamicObject(h, view.value) # 0
    THEN LET itr == findFrom(h, var_getDynamicObject(h, view.value),
                             fromStdString(propertyName), 0)
         IN IF itr.off = Len(h[itr.base].elems) THEN NullPtr ELSE itr
    ELSE NullPtr

JuceVarObject_find(h, view, propertyName) ==
    IF var_getDynamicObject(h, view.value) # 0
    THEN findFrom(h, var_getDynamicObject(h, view.value),
                  fromStdString(propertyName), 0)
    ELSE NullPtr

\* JuceVarArrayValueIterator
ArrayIterator_deref(h, itr) == h[itr.base].elems[itr.off + 1]
ArrayIterator_eq(itr, other) == itr = other
ArrayIterator_ne(itr, other) == ~ (itr = other)
\* operator++ stepping over two elements.
ArrayIterator_inc_twice(itr) == Ptr(itr.base, itr.off + 2)

ArrayIterator_inc(itr) == Ptr(itr.base, itr.off + 1)
ArrayIterator_dec(itr) == Ptr(itr.base, itr.off - 1)
\* advance() stepping once whatever n is.
ArrayIterator_advance_once(itr, n) == Ptr(itr.base, itr.off + 1)

ArrayIterator_advance(itr, n) == Ptr(itr.base, itr.off + n)
ArrayIterator_postinc(itr) ==
    [ret |-> Ptr(itr.base, itr.off), itr |-> ArrayIterator_inc(itr)]

\* JuceVarObjectMemberIterator; a member is the pair (name, value).
ObjectIterator_deref(h, itr) ==
    IF itr = NullPtr
    THEN [name |-> <<>>, value |-> JuceVarValue_default]
    ELSE [name |-> toStdString(h[itr.base].names[itr.off + 1]),
          value |-> h[itr.base].elems[itr.off + 1]]
ObjectIterator_eq(itr, other) == itr = other
ObjectIterator_ne(itr, other) == ~ (itr = other)
ObjectIterator_inc(itr) == Ptr(itr.base, itr.off + 1)
ObjectIterator_dec(itr) == Ptr(itr.base, itr.off - 1)
ObjectIterator_postinc(itr) ==
    [ret |-> Ptr(itr.base, itr.off), itr |-> ObjectIterator_inc(itr)]

(***************************************************************************)
(* The documents the model starts from, as trees, and their construction   *)
(* in the heap.                                                            *)
(***************************************************************************)
Leaf(v) == Tree(v.type, v.b, v.i, v.s, FALSE, <<>>, <<>>)
ArrayTree(kids) == Tree("array", FALSE, 0, <<>>, TRUE, <<>>, kids)
ObjectTree(names, kids) == Tree("object", FALSE, 0, <<>>, TRUE, names, kids)
\* An object var that holds no DynamicObject.
BareObjectTree == Tree("object", FALSE, 0, <<>>, FALSE, <<>>, <<>>)

\* Member names: "a", "A" and "e with acute accent" (two bytes in UTF-8).
Names == {<<97>>, <<65>>, <<233>>}

ScalarVars ==
    {VoidVar, UndefinedVar, BoolVar(TRUE), BoolVar(FALSE), IntVar(1),
     IntVar(-3), Int64Var(1), DoubleVar(2), DoubleVar(3), DoubleVar(-6),
     StringVar(<<97>>), StringVar(<<233, 65>>), StringVar(<<>>)}

KidTrees ==
    {Leaf(IntVar(1)), Leaf(DoubleVar(2)),
     ArrayTree(<<Leaf(StringVar(<<97>>))>>),
     ObjectTree(<<<<97>>>>, <<Leaf(BoolVar(TRUE))>>), BareObjectTree}

SeqsUpTo(S, n) == UNION {[1..k -> S] : k \in 0..n}
Distinct(q) == \A j, k \in 1..Len(q) : j # k => q[j] # q[k]

RootTrees ==
    {Leaf(v) : v \in ScalarVars} \cup {BareObjectTree}
    \cup {ArrayTree(kids) : kids \in SeqsUpTo(KidTrees, MaxLen)}
    \cup UNION {{ObjectTree(names, kids) : kids \in [1..Len(names) -> KidTrees]} :
                names \in {q \in SeqsUpTo(Names, MaxLen) : Distinct(q)}}

RECURSIVE Build(_, _)
RECURSIVE buildKids(_, _, _)
Build(h, t) ==
    IF t.type \in {"array", "object"} /\ t.dyn
    THEN LET a == Alloc(h)
             h1 == [h EXCEPT ![a] = Cell(t.type, t.names, <<>>)]
             r == buildKids(h1, t.kids, 1)
         IN [h |-> [r.h EXCEPT ![a].elems = r.vs],
             v |-> Var(t.type, FALSE, 0, <<>>, a)]
    ELSE [h |-> h, v |-> Var(t.type, t.b, t.i, t.s, 0)]

buildKids(h, kids, k) ==
    IF k > Len(kids) THEN [h |-> h, vs |-> <<>>]
    ELSE LET r1 == Build(h, kids[k])
             r2 == buildKids(r1.h, kids, k + 1)
         IN [h |-> r2.h, vs |-> <<r1.v>> \o r2.vs]

\* The heap before any document exists: the three static singletons.
BaseHeap ==
    [a \in Addrs |->
        IF a = EmptyArrayAddr THEN Cell("array", <<>>, <<>>)
        ELSE IF a \in {EmptyObjectAddr, ValueEmptyObjectAddr}
             THEN Cell("object", <<>>, <<>>)
             ELSE FreeCell]

Idle == [op |-> "none"]

InitWith(trees) ==
    /\ \E t \in trees :
          LET r == Build(BaseHeap, t) IN heap = r.h /\ doc = r.v
    /\ snaps = <<>>
    /\ last = Idle
    /\ steps = 0

Init == InitWith(RootTrees)

\* The vars a caller can hold a view of: the document and what it contains.
Values == Reach(heap, doc)

\* What the caller's output variable holds before a call.
OutBools == BOOLEAN
OutNumbers == {-7, 7}
OutStrings == {<<>>, <<122>>}

(***************************************************************************)
(* Operations of the value view.                                           *)
(***************************************************************************)
\* The caller is single-threaded and synchronous: it makes one call at a
\* time (last = Idle), the call leaves its record in `last`, and the caller
\* drops the record when it goes on (Return).
Frame == UNCHANGED <<heap, doc, snaps, steps>>
Call(record) == last = Idle /\ last' = record /\ Frame

Return == last # Idle /\ last' = Idle /\ Frame

GetBool ==
    \E value \in Values, result \in OutBools :
        Call([op |-> "getBool", value |-> value, before |-> result,
                    got |-> JuceVarValue_getBool(value, result)])

GetDouble ==
    \E value \in Values, result \in OutNumbers :
        Call([op |-> "getDouble", value |-> value, before |-> result,
                    got |-> JuceVarValue_getDouble(value, result)])

GetInteger ==
    \E value \in Values, result \in OutNumbers :
        Call([op |-> "getInteger", value |-> value, before |-> result,
                    got |-> JuceVarValue_getInteger(value, result)])

GetString ==
    \E value \in Values, result \in OutStrings :
        Call([op |-> "getString", value |-> value, before |-> result,
                    got |-> JuceVarValue_getString(value, result)])

GetArraySize ==
    \E value \in Values, result \in OutNumbers :
        Call([op |-> "getArraySize", value |-> value, before |-> result,
                    got |-> JuceVarValue_getArraySize(heap, value, result)])

GetObjectSize ==
    \E value \in Values, result \in OutNumbers :
        Call([op |-> "getObjectSize", value |-> value, before |-> result,
                    got |-> JuceVarValue_getObjectSize(heap, value, result)])

GetArrayOptional ==
    \E value \in Values :
        Call([op |-> "getArrayOptional", value |-> value,
                    view |-> JuceVarValue_getArrayOptional(value)])

GetObjectOptional ==
    \E value \in Values :
        Call([op |-> "getObjectOptional", value |-> value,
                    view |-> JuceVarValue_getObjectOptional(value)])

(***************************************************************************)
(* Construction of the container views.                                    *)
(***************************************************************************)
ConstructArray ==
    \E value \in Values :
        Call([op |-> "JuceVarArray", value |-> value,
                    view |-> JuceVarArray_ctor(value)])

ConstructObject ==
    \E value \in Values :
        Call([op |-> "JuceVarObject", value |-> value,
                    view |-> JuceVarObject_ctor(value)])

(***************************************************************************)
(* Default-constructed container views, and find() on an object view.      *)
(***************************************************************************)
\* Names a caller looks up, as std::string: the member names, and "aA".
FindNames == {toStdString(n) : n \in Names \cup {<<97, 65>>}}

DefaultArray ==
    LET view == JuceVarArray_default
    IN Call([op |-> "defaultArray", view |-> view,
             size |-> JuceVarArray_size(heap, view),
             begin |-> JuceVarArray_begin(heap, view),
             end |-> JuceVarArray_end(heap, view)])

DefaultObject ==
    \E propertyName \in FindNames :
        LET view == JuceVarObject_default
        IN Call([op |-> "defaultObject", view |-> view,
                 size |-> JuceVarObject_size(heap, view),
                 begin |-> JuceVarObject_begin(heap, view),
                 end |-> JuceVarObject_end(heap, view),
                 name |-> propertyName,
                 found |-> JuceVarObject_find(heap, view, propertyName)])

NoMember == [name |-> <<>>, value |-> VoidVar]

\* find() on an object view of the value, then *it when it != end().
Find ==
    \E value \in Values, propertyName \in FindNames :
        LET view == JuceVarObject_ctor(value)
            itr == JuceVarObject_find(heap, view, propertyName)
            end == JuceVarObject_end(heap, view)
        IN /\ ~ view.threw
           /\ Call([op |-> "find", value |-> value, name |-> propertyName,
                    itr |-> itr, end |-> end,
                    member |-> IF ObjectIterator_ne(itr, end)
                               THEN ObjectIterator_deref(heap, itr)
                               ELSE NoMember])

(***************************************************************************)
(* A caller's loop over an array view:                                     *)
(*     for (it = a.begin(); it != a.end(); ++it) use the value at it.      *)
(***************************************************************************)
WalkBegin ==
    \E value \in Values :
        LET view == JuceVarArray_ctor(value)
        IN /\ ~ view.threw
           /\ Call([op |-> "walk", value |-> value, view |-> view,
                    size |-> JuceVarArray_size(heap, view),
                    itr |-> JuceVarArray_begin(heap, view),
                    seen |-> <<>>, incs |-> 0])

WalkNext ==
    /\ last.op = "walk"
    /\ ArrayIterator_ne(last.itr, JuceVarArray_end(heap, last.view))
    /\ last' = [last EXCEPT
                  !.seen = Append(@, ArrayIterator_deref(heap, last.itr)),
                  !.itr = ArrayIterator_inc(@),
                  !.incs = @ + 1]
    /\ Frame

(***************************************************************************)
(* A caller that asks a value for its member count and then counts the     *)
(* members itself:                                                         *)
(*     v.getObjectSize (n);  o = *v.getObjectOptional();  o.size();        *)
(*     for (it = o.begin(); it != o.end(); ++it) use the member at it.     *)
(***************************************************************************)
ObjectWalkBegin ==
    \E value \in Values, result \in OutNumbers :
        LET view == JuceVarValue_getObjectOptional(value)
        IN /\ view.present
           /\ Call([op |-> "objectWalk", value |-> value, view |-> view,
                    before |-> result,
                    got |-> JuceVarValue_getObjectSize(heap, value, result),
                    size |-> JuceVarObject_size(heap, view),
                    itr |-> JuceVarObject_begin(heap, view),
                    seen |-> <<>>])

ObjectWalkNext ==
    /\ last.op = "objectWalk"
    /\ ObjectIterator_ne(last.itr, JuceVarObject_end(heap, last.view))
    /\ last' = [last EXCEPT
                  !.seen = Append(@, ObjectIterator_deref(heap, last.itr)),
                  !.itr = ObjectIterator_inc(@)]
    /\ Frame

(***************************************************************************)
(* Stepping iterators.  Pointer arithmetic is defined from begin() to      *)
(* end() only, so the iterator stays in that range.                        *)
(***************************************************************************)
RECURSIVE ArrayIncN(_, _)
ArrayIncN(itr, k) ==
    IF k = 0 THEN itr ELSE ArrayIncN(ArrayIterator_inc(itr), k - 1)

RECURSIVE ObjectIncN(_, _)
ObjectIncN(itr, k) ==
    IF k = 0 THEN itr ELSE ObjectIncN(ObjectIterator_inc(itr), k - 1)

ArrayViews == {JuceVarArray_ctor(value) : value \in {v \in Values : var_isArray(v)}}
ObjectViews ==
    {JuceVarObject_ctor(value) :
        value \in {v \in Values : var_getDynamicObject(heap, v) # 0}}

ArrayAdvance ==
    \E view \in ArrayViews :
        \E p \in 0..JuceVarArray_size(heap, view) :
            \E k \in 0..(JuceVarArray_size(heap, view) - p) :
                LET itr == ArrayIncN(JuceVarArray_begin(heap, view), p)
                IN Call([op |-> "arrayAdvance", view |-> view, p |-> p, k |-> k,
                         before |-> itr,
                         after |-> ArrayIterator_advance(itr, k)])

ArrayIncDec ==
    \E view \in ArrayViews :
        \E p \in 0..(JuceVarArray_size(heap, view) - 1) :
            LET itr == ArrayIncN(JuceVarArray_begin(heap, view), p)
            IN Call([op |-> "arrayIncDec", view |-> view, p |-> p,
                     before |-> itr,
                     mid |-> ArrayIterator_inc(itr),
                     after |-> ArrayIterator_dec(ArrayIterator_inc(itr))])

ArrayPostInc ==
    \E view \in ArrayViews :
        \E p \in 0..(JuceVarArray_size(heap, view) - 1) :
            LET itr == ArrayIncN(JuceVarArray_begin(heap, view), p)
            IN Call([op |-> "arrayPostInc", view |-> view, p |-> p,
                     before |-> itr,
                     ret |-> ArrayIterator_postinc(itr).ret,
                     after |-> ArrayIterator_postinc(itr).itr])

ObjectIncDec ==
    \E view \in ObjectViews :
        \E p \in 0..(JuceVarObject_size(heap, view) - 1) :
            LET itr == ObjectIncN(JuceVarObject_begin(heap, view), p)
            IN Call([op |-> "objectIncDec", view |-> view, p |-> p,
                     before |-> itr,
                     mid |-> ObjectIterator_inc(itr),
                     after |-> ObjectIterator_dec(ObjectIterator_inc(itr))])

ObjectPostInc ==
    \E view \in ObjectViews :
        \E p \in 0..(JuceVarObject_size(heap, view) - 1) :
            LET itr == ObjectIncN(JuceVarObject_begin(heap, view), p)
            IN Call([op |-> "objectPostInc", view |-> view, p |-> p,
                     before |-> itr,
                     ret |-> ObjectIterator_postinc(itr).ret,
                     after |-> ObjectIterator_postinc(itr).itr])

(***************************************************************************)
(* Frozen snapshots.  JuceVarFrozenValue (const var& source) stores        *)
(* source.clone(); freeze() and clone() both go through that constructor.  *)
(* A snapshot also records the value its source had when the snapshot was  *)
(* made (orig), the snapshot it was cloned from (from, 0 if it was made by *)
(* freeze()) and whether its own storage was written since (touched).      *)
(***************************************************************************)
JuceVarFrozenValue_ctor(h, source) == var_clone(h, source)
JuceVarValue_freeze(h, value) == JuceVarFrozenValue_ctor(h, value)
JuceVarFrozenValue_clone(h, value) == JuceVarFrozenValue_ctor(h, value)

Snapshot(value, orig, from) ==
    [value |-> value, orig |-> orig, from |-> from, touched |-> FALSE]

Freeze ==
    \E value \in Values :
        LET r == JuceVarValue_freeze(heap, value)
        IN /\ last = Idle
           /\ Len(snaps) < MaxSnaps
           /\ heap' = r.h
           /\ snaps' = Append(snaps, Snapshot(r.v, Abs(heap, value), 0))
           /\ UNCHANGED <<doc, last, steps>>

Clone ==
    \E s \in 1..Len(snaps) :
        LET r == JuceVarFrozenValue_clone(heap, snaps[s].value)
        IN /\ last = Idle
           /\ Len(snaps) < MaxSnaps
           /\ heap' = r.h
           /\ snaps' = Append(snaps,
                              Snapshot(r.v, Abs(heap, snaps[s].value), s))
           /\ UNCHANGED <<doc, last, steps>>

(***************************************************************************)
(* The owner of the document changes it, or destroys it, while snapshots   *)
(* exist.  Storage is reference counted: a cell nothing refers to any      *)
(* longer is released, and its address is used again.                      *)
(***************************************************************************)
Collect(h, roots) ==
    LET live == Statics \cup UNION {CellsOf(h, r) : r \in roots}
    IN [a \in Addrs |-> IF a \in live THEN h[a] ELSE FreeCell]

SnapshotValues(ss) == {ss[s].value : s \in 1..Len(ss)}

\* What a mutation writes.
NewLeaves == {IntVar(2)}

DocCells == CellsOf(heap, doc)

Mutated(h) ==
    /\ last = Idle
    /\ steps < MaxSteps
    /\ steps' = steps + 1
    /\ heap' = Collect(h, {doc} \cup SnapshotValues(snaps))
    /\ UNCHANGED <<doc, snaps, last>>

\* Overwrite an element of an array, or the value of a member of an object,
\* anywhere in the document.
DocSet ==
    \E a \in DocCells, leaf \in NewLeaves :
        \E k \in 1..Len(heap[a].elems) :
            Mutated([heap EXCEPT ![a].elems[k] = leaf])

\* Append an element to an array, or add a member to an object.
DocAdd ==
    \E a \in DocCells, leaf \in NewLeaves :
        /\ Len(heap[a].elems) < MaxLen
        /\ \/ /\ heap[a].kind = "array"
              /\ Mutated([heap EXCEPT ![a].elems = Append(@, leaf)])
           \/ /\ heap[a].kind = "object"
              /\ \E name \in Names :
                    /\ \A k \in 1..Len(heap[a].names) : heap[a].names[k] # name
                    /\ Mutated([heap EXCEPT ![a].elems = Append(@, leaf),
                                            ![a].names = Append(@, name)])

\* Remove the first element or member.
DocRemove ==
    \E a \in DocCells :
        /\ heap[a].elems # <<>>
        /\ Mutated([heap EXCEPT
                      ![a].elems = Tail(@),
                      ![a].names = IF @ = <<>> THEN @ ELSE Tail(@)])

\* The document goes away.
Destroy ==
    /\ last = Idle
    /\ doc # VoidVar
    /\ steps < MaxSteps
    /\ steps' = steps + 1
    /\ doc' = VoidVar
    /\ heap' = Collect(heap, SnapshotValues(snaps))
    /\ UNCHANGED <<snaps, last>>

\* A write into the storage of a snapshot that was made by clone().
CloneSet ==
    \E s \in 1..Len(snaps), leaf \in NewLeaves :
        \E a \in CellsOf(heap, snaps[s].value) :
            \E k \in 1..Len(heap[a].elems) :
                /\ last = Idle
                /\ snaps[s].from # 0
                /\ steps < MaxSteps
                /\ steps' = steps + 1
                /\ heap' = Collect([heap EXCEPT ![a].elems[k] = leaf],
                                   {doc} \cup SnapshotValues(snaps))
                /\ snaps' = [snaps EXCEPT ![s].touched = TRUE]
                /\ UNCHANGED <<doc, last>>

(***************************************************************************)
(* equalTo.  JuceVarFrozenValue::equalTo wraps the stored var in an        *)
(* adapter and calls BasicAdapter::equalTo (basic_adapter.hpp).  Under     *)
(* strict, values are equal when they have the same type and the same      *)
(* content, an integer and a floating-point number being different types;  *)
(* otherwise numbers are compared by their numeric value.                  *)
(***************************************************************************)
RECURSIVE BasicAdapter_equalTo(_, _, _, _)
BasicAdapter_equalTo(h, self, other, strict) ==
    CASE JuceVarValue_isNull(self) -> JuceVarValue_isNull(other)
      [] JuceVarValue_isBool(self) ->
           JuceVarValue_isBool(other) /\ var_toBool(self) = var_toBool(other)
      [] JuceVarValue_isNumber(self) /\ strict ->
           \/ /\ JuceVarValue_isInteger(self) /\ JuceVarValue_isInteger(other)
              /\ var_toInt64(self) = var_toInt64(other)
           \/ /\ JuceVarValue_isDouble(self) /\ JuceVarValue_isDouble(other)
              /\ var_toDouble(self) = var_toDouble(other)
      [] JuceVarValue_isNumber(self) /\ ~ strict ->
           JuceVarValue_isNumber(other)
               /\ var_toDouble(self) = var_toDouble(other)
      [] JuceVarValue_isString(self) ->
           JuceVarValue_isString(other)
               /\ toStdString(var_toString(self))
                      = toStdString(var_toString(other))
      [] JuceVarValue_isArray(self) ->
           /\ JuceVarValue_isArray(other)
           /\ var_size(h, self) = var_size(h, other)
           /\ \A k \in 1..var_size(h, self) :
                 BasicAdapter_equalTo(h, h[self.p].elems[k],
                                      h[other.p].elems[k], strict)
      [] JuceVarValue_isObject(self) ->
           /\ JuceVarValue_isObject(other)
           /\ JuceVarObject_size(h, View(self)) = JuceVarObject_size(h, View(other))
           /\ \A k \in 1..JuceVarObject_size(h, View(self)) :
                 LET name == toStdString(h[self.p].names[k])
                     itr == JuceVarObject_find(h, View(other), name)
                 IN /\ ObjectIterator_ne(itr, JuceVarObject_end(h, View(other)))
                    /\ BasicAdapter_equalTo(
                           h, h[self.p].elems[k],
                           ObjectIterator_deref(h, itr).value, strict)
      [] OTHER -> FALSE

\* equalTo dropping the caller's strict flag.
JuceVarFrozenValue_equalTo_loose(h, value, other, strict) ==
    BasicAdapter_equalTo(h, value, other, FALSE)

JuceVarFrozenValue_equalTo(h, value, other, strict) ==
    BasicAdapter_equalTo(h, value, other, strict)

EqualTo ==
    \E s \in 1..Len(snaps), other \in Values, strict \in BOOLEAN :
        Call([op |-> "equalTo", snap |-> s, other |-> other,
              strict |-> strict,
              ret |-> JuceVarFrozenValue_equalTo(heap, snaps[s].value,
                                                 other, strict)])

Next ==
    \/ GetBool \/ GetDouble \/ GetInteger \/ GetString
    \/ GetArraySize \/ GetObjectSize
    \/ GetArrayOptional \/ GetObjectOptional
    \/ ConstructArray \/ ConstructObject
    \/ DefaultArray \/ DefaultObject \/ Find
    \/ WalkBegin \/ WalkNext
    \/ ObjectWalkBegin \/ ObjectWalkNext
    \/ ArrayAdvance \/ ArrayIncDec \/ ArrayPostInc
    \/ ObjectIncDec \/ ObjectPostInc
    \/ Return

Spec == Init /\ [][Next]_vars

(***************************************************************************)
(* Snapshots of a document that changes under them.                        *)
(***************************************************************************)
FreezeTrees ==
    {ArrayTree(<<Leaf(IntVar(1)), Leaf(DoubleVar(2))>>),
     ObjectTree(<<<<97>>, <<65>>>>,
                <<ArrayTree(<<Leaf(IntVar(1))>>), Leaf(BoolVar(TRUE))>>),
     ArrayTree(<<ObjectTree(<<<<97>>>>, <<Leaf(VoidVar)>>)>>),
     ArrayTree(<<BareObjectTree>>),
     BareObjectTree,
     Leaf(StringVar(<<97>>))}

InitFreeze == InitWith(FreezeTrees)

NextFreeze ==
    \/ Freeze \/ Clone
    \/ DocSet \/ DocAdd \/ DocRemove \/ Destroy
    \/ CloneSet

FreezeSpec == InitFreeze /\ [][NextFreeze]_vars

(***************************************************************************)
(* Snapshots compared with live values.                                    *)
(***************************************************************************)
NumberLeaves ==
    {Leaf(IntVar(1)), Leaf(Int64Var(1)), Leaf(DoubleVar(2)), Leaf(DoubleVar(3))}

EqualTrees == {ArrayTree(kids) : kids \in SeqsUpTo(NumberLeaves, MaxLen)}

InitEqual == InitWith(EqualTrees)

NextEqual == Freeze \/ EqualTo \/ Return

EqualSpec == InitEqual /\ [][NextEqual]_vars

(***************************************************************************)
(* Properties.                                                             *)
(***************************************************************************)

\* C1: constructing an array view from a var succeeds iff isArray() is true
\* of it, constructing an object view succeeds iff isObject() is true of
\* it; otherwise the constructor throws and no view exists.
C1_ConstructionIffType ==
    /\ last.op = "JuceVarArray" =>
          /\ last.view.present <=> JuceVarValue_isArray(last.value)
          /\ last.view.threw <=> ~ JuceVarValue_isArray(last.value)
          /\ last.view.present => last.view.value = last.value
    /\ last.op = "JuceVarObject" =>
          /\ last.view.present <=> JuceVarValue_isObject(last.value)
          /\ last.view.threw <=> ~ JuceVarValue_isObject(last.value)
          /\ last.view.present => last.view.value = last.value

\* An array view was asked of an object var, and the constructor threw.
C1_Witness ==
    /\ last.op = "JuceVarArray"
    /\ JuceVarValue_isObject(last.value)
    /\ last.view.threw /\ ~ last.view.present

\* C2: a scalar extractor returns true, with the stored value in its
\* output, iff the predicate of its type is true of the var; it returns
\* false for every other type and converts nothing.
C2_ExtractIffType ==
    /\ last.op = "getBool" =>
          /\ last.got.ret <=> JuceVarValue_isBool(last.value)
          /\ last.got.ret => last.got.result = last.value.b
    /\ last.op = "getDouble" =>
          /\ last.got.ret <=> JuceVarValue_isDouble(last.value)
          /\ last.got.ret => last.got.result = last.value.i
    /\ last.op = "getInteger" =>
          /\ last.got.ret <=> JuceVarValue_isInteger(last.value)
          /\ last.got.ret => last.got.result = last.value.i
    /\ last.op = "getString" =>
          /\ last.got.ret <=> JuceVarValue_isString(last.value)
          /\ last.got.ret => fromStdString(last.got.result) = last.value.s

\* getDouble was called on an integer and returned false.
C2_Witness ==
    /\ last.op = "getDouble"
    /\ JuceVarValue_isInteger(last.value)
    /\ ~ last.got.ret

\* C3: getArrayOptional() holds a view iff the var is an array,
\* getObjectOptional() holds a view iff the var is an object; otherwise the
\* optional is empty, and neither ever throws.
C3_OptionalIffType ==
    /\ last.op = "getArrayOptional" =>
          /\ last.view.present <=> JuceVarValue_isArray(last.value)
          /\ ~ last.view.threw
          /\ last.view.present => last.view.value = last.value
    /\ last.op = "getObjectOptional" =>
          /\ last.view.present <=> JuceVarValue_isObject(last.value)
          /\ ~ last.view.threw
          /\ last.view.present => last.view.value = last.value

\* getObjectOptional() was called on an array: empty, nothing thrown.
C3_Witness ==
    /\ last.op = "getObjectOptional"
    /\ JuceVarValue_isArray(last.value)
    /\ ~ last.view.present /\ ~ last.view.threw

Extractors ==
    {"getBool", "getDouble", "getInteger", "getString",
     "getArraySize", "getObjectSize"}

\* C4: when an extractor returns false, the caller's output variable holds
\* what it held before the call.
C4_FailureLeavesOutput ==
    (last.op \in Extractors /\ ~ last.got.ret) =>
        last.got.result = last.before

\* getArraySize was called on a string and returned false.
C4_Witness ==
    /\ last.op = "getArraySize"
    /\ JuceVarValue_isString(last.value)
    /\ ~ last.got.ret /\ last.got.result = last.before

\* C5: an array view of an array of n elements has size() = n; the loop
\* from begin() reaches end() after exactly n increments and not before,
\* and the i-th value it dereferences is the i-th element of the array.
C5_WalkInOrder ==
    last.op = "walk" =>
        LET elems == heap[last.value.p].elems
            n == Len(elems)
        IN /\ last.size = n
           /\ Len(last.seen) = last.incs
           /\ last.incs <= n
           /\ ArrayIterator_eq(last.itr, JuceVarArray_end(heap, last.view))
                  <=> last.incs = n
           /\ \A i \in 1..Len(last.seen) : last.seen[i] = elems[i]

\* A loop over an array of two different elements is at end().
C5_Witness ==
    /\ last.op = "walk"
    /\ ArrayIterator_eq(last.itr, JuceVarArray_end(heap, last.view))
    /\ Len(last.seen) >= 2
    /\ last.seen[1] # last.seen[2]

\* C6: find(s) on an object view is different from end() and dereferences
\* to (s, the value of member s) iff the object has a member named exactly
\* s; otherwise it equals end().
C6_FindIffMember ==
    last.op = "find" =>
        LET object == var_getDynamicObject(heap, last.value)
            at == IF object = 0 THEN {}
                  ELSE {k \in 1..Len(heap[object].names) :
                           toStdString(heap[object].names[k]) = last.name}
        IN /\ at # {} <=> ObjectIterator_ne(last.itr, last.end)
           /\ at = {} => ObjectIterator_eq(last.itr, last.end)
           /\ \A k \in at :
                 /\ last.member.name = last.name
                 /\ last.member.value = heap[object].elems[k]

\* find() found a member that is not the first one.
C6_Witness ==
    /\ last.op = "find"
    /\ ObjectIterator_ne(last.itr, last.end)
    /\ last.itr.off > 0
    /\ last.member.name = last.name

\* C7: a frozen snapshot, made by freeze() or by clone(), has the value its
\* source had when the snapshot was made, whatever happens afterwards to
\* the document or to a clone of the snapshot.
C7_SnapshotHasSourceValue ==
    \A s \in 1..Len(snaps) :
        ~ snaps[s].touched => Abs(heap, snaps[s].value) = snaps[s].orig

\* What does hold of every snapshot: once made, its value never changes
\* unless its own storage is written.
SnapshotNeverChanges ==
    [][\A s \in 1..Len(snaps) :
          ~ snaps'[s].touched =>
              Abs(heap', snaps'[s].value) = Abs(heap, snaps[s].value)]_vars

\* A snapshot differs from its source only where the source holds an object
\* var without a DynamicObject.
RECURSIVE HasBareObject(_)
HasBareObject(t) ==
    \/ t.type = "object" /\ ~ t.dyn
    \/ \E k \in 1..Len(t.kids) : HasBareObject(t.kids[k])

SnapshotOfDynamicValue ==
    \A s \in 1..Len(snaps) :
        (~ snaps[s].touched /\ ~ HasBareObject(snaps[s].orig)) =>
            Abs(heap, snaps[s].value) = snaps[s].orig

C9_DefaultViewsEmpty ==
    /\ last.op = "defaultArray" =>
          /\ last.size = 0
          /\ ArrayIterator_eq(last.begin, last.end)
    /\ last.op = "defaultObject" =>
          /\ last.size = 0
          /\ ObjectIterator_eq(last.begin, last.end)
          /\ ObjectIterator_eq(last.found, last.end)

\* find() was called on a default-constructed object view.
C9_Witness ==
    /\ last.op = "defaultObject"
    /\ last.size = 0
    /\ ObjectIterator_eq(last.found, last.end)
    /\ last.name = <<195, 169>>

\* C10: advance(k) from position p, 0 <= k <= n - p, equals k
\* pre-increments; pre-increment then pre-decrement returns to p;
\* post-increment returns an iterator at p and leaves the iterator at
\* p + 1.  The last two also hold of the object member iterator.
C10_IteratorSteps ==
    /\ last.op = "arrayAdvance" =>
          ArrayIterator_eq(last.after, ArrayIncN(last.before, last.k))
    /\ last.op = "arrayIncDec" =>
          /\ ArrayIterator_eq(last.after, last.before)
          /\ ArrayIterator_ne(last.mid, last.before)
    /\ last.op = "arrayPostInc" =>
          /\ ArrayIterator_eq(last.ret, last.before)
          /\ ArrayIterator_eq(
                 last.after,
                 ArrayIncN(JuceVarArray_begin(heap, last.view), last.p + 1))
    /\ last.op = "objectIncDec" =>
          /\ ObjectIterator_eq(last.after, last.before)
          /\ ObjectIterator_ne(last.mid, last.before)
    /\ last.op = "objectPostInc" =>
          /\ ObjectIterator_eq(last.ret, last.before)
          /\ ObjectIterator_eq(
                 last.after,
                 ObjectIncN(JuceVarObject_begin(heap, last.view), last.p + 1))

\* advance(2) was called on an iterator at begin().
C10_Witness ==
    /\ last.op = "arrayAdvance"
    /\ last.p = 0 /\ last.k >= 2
    /\ ArrayIterator_eq(last.after, JuceVarArray_end(heap, last.view))

\* C11: getObjectSize succeeds iff isObject() is true of the value; when
\* isObject() is true, the count it reports is size() of the object view
\* from getObjectOptional() and the number of members a loop from begin()
\* to end() over that view produces.
C11_ObjectSizeIffObject ==
    /\ last.op = "getObjectSize" =>
          (last.got.ret <=> JuceVarValue_isObject(last.value))
    /\ last.op = "objectWalk" =>
          /\ last.got.ret <=> JuceVarValue_isObject(last.value)
          /\ JuceVarValue_isObject(last.value) =>
                /\ last.got.result = last.size
                /\ ObjectIterator_eq(last.itr,
                                     JuceVarObject_end(heap, last.view))
                      => last.got.result = Len(last.seen)

\* What does hold: getObjectSize succeeds iff the value holds a
\* DynamicObject, and then the three counts agree; for an object var
\* without one it fails, while size() is 0 and the loop produces nothing.
ObjectSizeIffDynamicObject ==
    /\ last.op = "getObjectSize" =>
          (last.got.ret <=> var_getDynamicObject(heap, last.value) # 0)
    /\ last.op = "objectWalk" =>
          LET atEnd == ObjectIterator_eq(last.itr,
                                         JuceVarObject_end(heap, last.view))
          IN /\ last.got.ret <=> var_getDynamicObject(heap, last.value) # 0
             /\ last.got.ret => last.got.result = last.size
             /\ ~ last.got.ret =>
                   last.got.result = last.before /\ last.size = 0 /\ atEnd
             /\ atEnd => Len(last.seen) = last.size

====
